---- MODULE Spec2Model ----
(***************************************************************************)
(* A model of btdBotClient.py: the chat-message parser, the position       *)
(* sizer, and the process life cycle (initialize, the unit tests of the    *)
(* main block, shutdown and the state file carried across restarts).       *)
(*                                                                         *)
(* Python strings are modelled as sequences of one-character strings, so   *)
(* that strip, upper, split, startswith, isnumeric and the ordering of     *)
(* strings are computed the way Python computes them.                      *)
(***************************************************************************)
EXTENDS Integers, Sequences, FiniteSets, TLC

VARIABLES
    msg_text,       \* the text handed to parse_trade_message
    parse_result,   \* what that call produced (NotCalled before it)
    size_result,    \* what get_order_size produced (NotCalled before it)
    config,         \* the global config dict
    state,          \* the global state dict
    pc,             \* position of the process in the main block / initialize
    state_file,     \* disk: the JSON text of the state file, or NoFile
    config_file,    \* disk: the JSON text of the config file, or NoFile
    log_file,       \* disk: TRUE when the log file exists
    env,            \* the environment variables that are set
    run,            \* number of the current process run
    test_idx,       \* index of the next unit test of the main block
    original_enable_trading, \* local of initialize (line 360)
    hist,           \* history of the current run (see NewHist)
    events,         \* the chat events the message handler was called with
    handler,        \* what the handler calls have done (see NewHandler)
    float_value,    \* the float handed to a float helper
    precision_type, \* the precision type handed to float_to_str
    str_result,     \* what float_to_str returned and logged, or NotCalled
    round_result    \* what a rounding helper returned, or NotCalled

\* the process and its files
process_vars == <<pc, state_file, config_file, log_file, env, run, test_idx,
                  original_enable_trading, hist>>

\* the calls of the message handler and of the float helpers
call_vars == <<events, handler, float_value, precision_type, str_result,
               round_result>>

vars == <<msg_text, parse_result, size_result, config, state, pc, state_file,
          config_file, log_file, env, run, test_idx, original_enable_trading,
          hist, events, handler, float_value, precision_type, str_result,
          round_result>>

(***************************************************************************)
(* Python values                                                           *)
(***************************************************************************)
None == [kind |-> "None"]
NotCalled == [kind |-> "not_called"]
Raised(name) == [kind |-> "raise", exc |-> name]
PyStr(s) == [kind |-> "str", val |-> s]
PyInt(n) == [kind |-> "int", val |-> n]
PyBool(b) == [kind |-> "bool", val |-> b]
\* a float; val counts thousandths where the value is an order quantity
PyFloat(x) == [kind |-> "float", val |-> x]
PyDict(d) == [kind |-> "dict", val |-> d]
PyList(l) == [kind |-> "list", val |-> l]
EmptyDict == PyDict(<<>>)

IsRaise(v) == v.kind = "raise"

\* d[key]: KeyError when the key is missing
getitem(d, key) ==
    IF key \in DOMAIN d.val THEN d.val[key] ELSE Raised("KeyError")

\* d[key] = value
setitem(d, key, value) ==
    PyDict([k \in DOMAIN d.val \cup {key} |->
               IF k = key THEN value ELSE d.val[k]])

(***************************************************************************)
(* Characters and strings                                                  *)
(***************************************************************************)
LowerCase == <<"a","b","c","d","e","f","g","h","i","j","k","l","m",
               "n","o","p","q","r","s","t","u","v","w","x","y","z">>
UpperCase == <<"A","B","C","D","E","F","G","H","I","J","K","L","M",
               "N","O","P","Q","R","S","T","U","V","W","X","Y","Z">>
Digits == <<"0","1","2","3","4","5","6","7","8","9">>

\* The characters of the model in code-point order.
CodePoints == <<" ", ",", "-", ".">> \o Digits \o <<":", "@">> \o UpperCase
              \o <<"_">> \o LowerCase

IndexIn(c, seq) == CHOOSE i \in 1..Len(seq) : seq[i] = c

ord(c) == IndexIn(c, CodePoints)

IsLower(c) == \E i \in 1..Len(LowerCase) : LowerCase[i] = c
IsDigit(c) == \E i \in 1..Len(Digits) : Digits[i] = c
IsSpace(c) == c = " "

upper_char(c) == IF IsLower(c) THEN UpperCase[IndexIn(c, LowerCase)] ELSE c

\* str.upper()
upper(s) == [i \in 1..Len(s) |-> upper_char(s[i])]

\* str.strip()
RECURSIVE lstrip(_)
lstrip(s) == IF s # <<>> /\ IsSpace(Head(s)) THEN lstrip(Tail(s)) ELSE s

RECURSIVE rstrip(_)
rstrip(s) ==
    IF s # <<>> /\ IsSpace(s[Len(s)]) THEN rstrip(SubSeq(s, 1, Len(s) - 1))
    ELSE s

strip(s) == rstrip(lstrip(s))

\* c in s, for a one-character c
contains_char(s, c) == \E i \in 1..Len(s) : s[i] = c

\* str.split(sep) for a one-character separator: empty fields are kept
RECURSIVE split(_, _)
split(s, sep) ==
    IF ~contains_char(s, sep) THEN <<s>>
    ELSE LET i == CHOOSE k \in 1..Len(s) :
                      s[k] = sep /\ \A j \in 1..(k - 1) : s[j] # sep
         IN  <<SubSeq(s, 1, i - 1)>> \o split(SubSeq(s, i + 1, Len(s)), sep)

\* str.startswith(prefix)
startswith(s, prefix) ==
    Len(s) >= Len(prefix) /\ SubSeq(s, 1, Len(prefix)) = prefix

\* str.isnumeric(): at least one character and every character a digit
isnumeric(s) == s # <<>> /\ \A i \in 1..Len(s) : IsDigit(s[i])

\* a > b on Python strings: lexicographic by code point, a proper prefix
\* being the smaller string
RECURSIVE str_gt(_, _)
str_gt(a, b) ==
    IF a = <<>> THEN FALSE
    ELSE IF b = <<>> THEN TRUE
    ELSE IF Head(a) # Head(b) THEN ord(Head(a)) > ord(Head(b))
    ELSE str_gt(Tail(a), Tail(b))

\* msg_buy_order.contains(' '): str has no method named contains, so the
\* attribute lookup raises AttributeError whatever the arguments are
str_contains(s, sub) == Raised("AttributeError")

(***************************************************************************)
(* parse_trade_message                                                     *)
(***************************************************************************)
BUY == <<"B","U","Y">>
SELL == <<"S","E","L","L">>
OF == <<"O","F">>
AT == <<"@">>
BTC_USD == <<"B","T","C","_","U","S","D">>

\* lines 562-613: the sell clause and the order that is returned
parse_sell_clause(msg_buy_order, msg_sell_order, msg_buy_pair, msg_buy_count, msg_buy_total) ==
    IF ~startswith(msg_sell_order, SELL) THEN None
    ELSE LET c == str_contains(msg_sell_order, " ") IN
    IF c.kind = "raise" THEN c
    ELSE IF ~c.val THEN None
    ELSE LET sell_parts == split(msg_buy_order, " ") IN
    IF Len(sell_parts) # 3 THEN None
    ELSE LET msg_sell_command == strip(sell_parts[1])
             msg_sell_at == strip(sell_parts[2])
             msg_sell_price == strip(sell_parts[3]) IN
    IF msg_sell_command # SELL THEN None
    ELSE IF msg_sell_at # AT THEN None
    ELSE IF ~isnumeric(msg_sell_price) THEN None
    ELSE [kind |-> "order",
          pair |-> PyStr(msg_buy_pair),
          buy_count |-> PyStr(msg_buy_count),
          buy_total |-> PyStr(msg_buy_total),
          sell_price |-> PyStr(msg_sell_price)]

\* lines 517-560: the buy clause
parse_buy_clause(msg_buy_order, msg_sell_order) ==
    LET buy_parts == split(msg_buy_order, " ") IN
    IF Len(buy_parts) # 5 THEN None
    ELSE LET msg_buy_command == strip(buy_parts[1])
             msg_buy_pair == strip(buy_parts[2])
             msg_buy_count == strip(buy_parts[3])
             msg_buy_of == strip(buy_parts[4])
             msg_buy_total == strip(buy_parts[5]) IN
    IF msg_buy_command # BUY THEN None
    ELSE IF msg_buy_pair # BTC_USD THEN None
    ELSE IF msg_buy_of # OF THEN None
    ELSE IF ~isnumeric(msg_buy_count) /\ ~isnumeric(msg_buy_total) THEN None
    ELSE IF str_gt(msg_buy_count, msg_buy_total) THEN None
    ELSE parse_sell_clause(msg_buy_order, msg_sell_order, msg_buy_pair,
                           msg_buy_count, msg_buy_total)

\* lines 477-515
parse_trade_message(text) ==
    LET msg == upper(strip(text)) IN
    IF ~contains_char(msg, ",") THEN None
    ELSE LET msg_parts == split(msg, ",") IN
    IF Len(msg_parts) # 3 THEN None
    ELSE LET msg_buy_order == strip(msg_parts[2])
             msg_sell_order == strip(msg_parts[3]) IN
    IF ~startswith(msg_buy_order, BUY) THEN None
    ELSE LET c == str_contains(msg_buy_order, " ") IN
    IF c.kind = "raise" THEN c
    ELSE IF ~c.val THEN None
    ELSE parse_buy_clause(msg_buy_order, msg_sell_order)

(***************************************************************************)
(* Natural numbers of any size: limbs of 15 bits, lowest first             *)
(***************************************************************************)
LimbBits == 15
Limb == 2^LimbBits

RECURSIVE big_norm(_)
big_norm(a) ==
    IF a # <<>> /\ a[Len(a)] = 0 THEN big_norm(SubSeq(a, 1, Len(a) - 1))
    ELSE a

RECURSIVE big_from_int(_)
big_from_int(n) ==
    IF n = 0 THEN <<>> ELSE <<n % Limb>> \o big_from_int(n \div Limb)

RECURSIVE big_to_int(_)
big_to_int(a) ==
    IF a = <<>> THEN 0 ELSE a[1] + Limb * big_to_int(Tail(a))

limb_at(a, i) == IF i <= Len(a) THEN a[i] ELSE 0

\* n times the zero z, none for n <= 0
zeros(n, z) == [i \in 1..(IF n > 0 THEN n ELSE 0) |-> z]

\* -1, 0 or 1 as a < b, a = b or a > b
big_cmp(a, b) ==
    IF Len(a) < Len(b) THEN -1
    ELSE IF Len(a) > Len(b) THEN 1
    ELSE LET differ == {i \in 1..Len(a) : a[i] # b[i]}
             top == CHOOSE i \in differ : \A j \in differ : j <= i
         IN  IF differ = {} THEN 0 ELSE IF a[top] < b[top] THEN -1 ELSE 1

\* a * k + carry for 0 <= k <= 65536
RECURSIVE big_mul_small(_, _, _)
big_mul_small(a, k, carry) ==
    IF a = <<>> THEN big_from_int(carry)
    ELSE LET t == a[1] * k + carry
         IN  <<t % Limb>> \o big_mul_small(Tail(a), k, t \div Limb)

big_mul(a, k) == big_norm(big_mul_small(a, k, 0))

RECURSIVE big_add_from(_, _, _, _)
big_add_from(a, b, i, carry) ==
    IF i > Len(a) /\ i > Len(b) THEN big_from_int(carry)
    ELSE LET t == limb_at(a, i) + limb_at(b, i) + carry
         IN  <<t % Limb>> \o big_add_from(a, b, i + 1, t \div Limb)

big_add(a, b) == big_add_from(a, b, 1, 0)

RECURSIVE big_sub_from(_, _, _, _)
big_sub_from(a, b, i, borrow) ==
    IF i > Len(a) THEN <<>>
    ELSE LET t == a[i] - limb_at(b, i) - borrow
         IN  IF t < 0 THEN <<t + Limb>> \o big_sub_from(a, b, i + 1, 1)
             ELSE <<t>> \o big_sub_from(a, b, i + 1, 0)

\* a - b for a >= b
big_sub(a, b) == big_norm(big_sub_from(a, b, 1, 0))

\* quotient and remainder of a by 0 < k <= 65536, from the highest limb down
RECURSIVE big_divmod_from(_, _, _, _)
big_divmod_from(a, k, i, rem) ==
    IF i = 0 THEN [q |-> <<>>, r |-> rem]
    ELSE LET t == rem * Limb + a[i]
             rest == big_divmod_from(a, k, i - 1, t % k)
         IN  [q |-> Append(rest.q, t \div k), r |-> rest.r]

big_divmod(a, k) ==
    LET dm == big_divmod_from(a, k, Len(a), 0)
    IN  [q |-> big_norm(dm.q), r |-> dm.r]

big_odd(a) == a # <<>> /\ a[1] % 2 = 1

\* the number of bits of a
big_bits(a) ==
    IF a = <<>> THEN 0
    ELSE LimbBits * (Len(a) - 1)
         + (CHOOSE n \in 1..LimbBits : 2^(n - 1) <= a[Len(a)] /\ a[Len(a)] < 2^n)

\* a * 2^n
big_shl(a, n) ==
    IF a = <<>> THEN <<>>
    ELSE zeros(n \div LimbBits, 0) \o big_mul(a, 2^(n % LimbBits))

\* a \div 2^n, and whether a one bit was shifted out
big_shr(a, n) ==
    LET limbs == IF n \div LimbBits < Len(a) THEN n \div LimbBits ELSE Len(a)
        dm == big_divmod(SubSeq(a, limbs + 1, Len(a)), 2^(n % LimbBits))
    IN  [q |-> dm.q,
         lost |-> dm.r # 0 \/ \E i \in 1..limbs : a[i] # 0]

\* a * 10^p
RECURSIVE big_mul_pow10(_, _)
big_mul_pow10(a, p) ==
    IF p = 0 THEN a ELSE big_mul_pow10(big_mul(a, 10), p - 1)

(***************************************************************************)
(* Python floats are IEEE 754 doubles: (-1)^neg * m * 2^e with             *)
(* 2^52 <= m < 2^53, or zero.  Every operation rounds the exact result to  *)
(* the nearest double, ties to the even mantissa.                          *)
(***************************************************************************)
MantissaBits == 53
Two52 == big_shl(<<1>>, MantissaBits - 1)
Two53 == big_shl(<<1>>, MantissaBits)

float_zero == [neg |-> FALSE, m |-> <<>>, e |-> 0]

\* one step of long division: the next quotient bit of r / d joins m
quotient_step(s, d) ==
    IF big_cmp(s.r, d) >= 0
    THEN [m |-> big_mul_small(s.m, 2, 1), r |-> big_mul(big_sub(s.r, d), 2)]
    ELSE [m |-> big_mul(s.m, 2), r |-> big_mul(s.r, 2)]

\* n >= 1 steps of long division, half of them at a time; once nothing is
\* left the other bits are zero
RECURSIVE quotient_bits(_, _, _)
quotient_bits(s, d, n) ==
    IF s.r = <<>> THEN [m |-> big_shl(s.m, n), r |-> <<>>]
    ELSE IF n = 1 THEN quotient_step(s, d)
    ELSE quotient_bits(quotient_bits(s, d, n \div 2), d, n - n \div 2)

\* the double nearest to (a / b) * 2^e0, for a >= 0 and b > 0; each local
\* operator receives the values of the step before it
float_round(neg, a, b, e0) ==
    LET pack(m, e) ==
            IF m = Two53 THEN [neg |-> neg, m |-> Two52, e |-> e + 1]
            ELSE [neg |-> neg, m |-> m, e |-> e]
        \* c compares what is left with the half: up when it is more, or on
        \* a tie when the mantissa is odd
        nearest(q, c, e) ==
            pack(IF c > 0 \/ (c = 0 /\ big_odd(q.m))
                 THEN big_add(q.m, <<1>>) ELSE q.m, e)
        divide(r0, d, k) ==
            LET rounded(q) ==
                    nearest(q, big_cmp(q.r, d), e0 + k - (MantissaBits - 1))
            IN  rounded(quotient_bits([m |-> <<>>, r |-> r0], d,
                                      MantissaBits))
        \* 1 <= r0 / d < 2 and a / b = (r0 / d) * 2^k
        normal(a0, d, k0, below) ==
            divide(IF below THEN big_mul(a0, 2) ELSE a0, d,
                   IF below THEN k0 - 1 ELSE k0)
        aligned(a0, d, k0) == normal(a0, d, k0, big_cmp(a0, d) < 0)
        scaled(k0) ==
            aligned(IF k0 < 0 THEN big_shl(a, -k0) ELSE a,
                    IF k0 > 0 THEN big_shl(b, k0) ELSE b, k0)
    IN  IF a = <<>> THEN float_zero
        ELSE scaled(big_bits(a) - big_bits(b))

\* float(n) for an int n
float_of_int(n) ==
    float_round(n < 0, big_from_int(IF n < 0 THEN -n ELSE n), <<1>>, 0)

\* the int the digits s spell
RECURSIVE big_of_digits(_)
big_of_digits(s) ==
    IF s = <<>> THEN <<>>
    ELSE big_norm(big_mul_small(big_of_digits(SubSeq(s, 1, Len(s) - 1)), 10,
                                IndexIn(s[Len(s)], Digits) - 1))

\* float(s) for a decimal numeral s: digits, '.', digits, with or without '-'
float_of_str(s) ==
    LET neg == s # <<>> /\ s[1] = "-"
        body == IF neg THEN Tail(s) ELSE s
        dots == {i \in 1..Len(body) : body[i] = "."}
        point == IF dots = {} THEN Len(body) + 1 ELSE CHOOSE i \in dots : TRUE
        digits == SubSeq(body, 1, point - 1) \o SubSeq(body, point + 1, Len(body))
        places == IF dots = {} THEN 0 ELSE Len(body) - point
    IN  float_round(neg, big_of_digits(digits), big_mul_pow10(<<1>>, places), 0)

\* a / b for b # 0
float_div(a, b) ==
    IF a.m = <<>> THEN float_zero
    ELSE float_round(a.neg # b.neg, a.m, b.m, a.e - b.e)

\* n * b for an int n, which becomes a double first (exactly, below 2^53)
int_mul_float(n, b) ==
    IF n = 0 \/ b.m = <<>> THEN float_zero
    ELSE LET k == IF n < 0 THEN -n ELSE n
         IN  float_round((n < 0) # b.neg, big_mul(b.m, k), <<1>>, b.e)

\* math.floor(a), an int
math_floor(a) ==
    LET whole(s) ==
            LET v == big_to_int(s.q)
            IN  IF a.neg THEN (IF s.lost THEN -(v + 1) ELSE -v) ELSE v
    IN  IF a.m = <<>> THEN 0
        ELSE IF a.e >= 0
        THEN whole([q |-> big_shl(a.m, a.e), lost |-> FALSE])
        ELSE whole(big_shr(a.m, -a.e))

float_abs_cmp(a, b) ==
    IF a.m = <<>> THEN (IF b.m = <<>> THEN 0 ELSE -1)
    ELSE IF b.m = <<>> THEN 1
    ELSE IF a.e < b.e THEN -1
    ELSE IF a.e > b.e THEN 1
    ELSE big_cmp(a.m, b.m)

\* -1, 0 or 1 as a < b, a == b or a > b
float_cmp(a, b) ==
    IF a.m = <<>> /\ b.m = <<>> THEN 0
    ELSE IF a.m = <<>> THEN (IF b.neg THEN 1 ELSE -1)
    ELSE IF b.m = <<>> THEN (IF a.neg THEN -1 ELSE 1)
    ELSE IF a.neg /\ ~b.neg THEN -1
    ELSE IF ~a.neg /\ b.neg THEN 1
    ELSE IF a.neg THEN float_abs_cmp(b, a)
    ELSE float_abs_cmp(a, b)

\* the decimal digits of a, highest first
RECURSIVE big_digits(_)
big_digits(a) ==
    IF a = <<>> THEN <<>>
    ELSE LET dm == big_divmod(a, 10)
         IN  Append(big_digits(dm.q), Digits[dm.r + 1])

\* '{:.<precision>f}'.format(a): |a| * 10^precision rounded to the nearest
\* int, ties to even, with the point before its last precision digits
format_f(a, precision) ==
    LET pointed(padded) ==
            (IF a.neg THEN <<"-">> ELSE <<>>)
            \o SubSeq(padded, 1, Len(padded) - precision)
            \o (IF precision > 0
                THEN <<".">> \o SubSeq(padded, Len(padded) - precision + 1,
                                       Len(padded))
                ELSE <<>>)
        padded(digits) ==
            pointed(zeros(precision + 1 - Len(digits), "0") \o digits)
        half_even(s, h) ==
            IF h.r = 1 /\ (s.lost \/ big_odd(h.q))
            THEN big_add(h.q, <<1>>) ELSE h.q
        halved(s) == half_even(s, big_divmod(s.q, 2))
        nearest(t) ==
            IF a.m = <<>> THEN <<>>
            ELSE IF a.e >= 0 THEN big_shl(t, a.e)
            ELSE halved(big_shr(t, -a.e - 1))
    IN  padded(big_digits(nearest(big_mul_pow10(a.m, precision))))

\* whether s is digits with at most one '.', after an optional '-'
is_decimal(s) ==
    LET body == IF s # <<>> /\ s[1] = "-" THEN Tail(s) ELSE s
    IN  /\ \E i \in 1..Len(body) : IsDigit(body[i])
        /\ \A i \in 1..Len(body) : IsDigit(body[i]) \/ body[i] = "."
        /\ \A i, j \in 1..Len(body) :
              (body[i] = "." /\ body[j] = ".") => i = j

\* float(x) of a float, of an int or of the decimal numeral a str holds
float(x) ==
    IF x.kind = "float" THEN x
    ELSE IF x.kind = "int" THEN PyFloat(float_of_int(x.val))
    ELSE IF is_decimal(x.val) THEN PyFloat(float_of_str(x.val))
    ELSE Raised("ValueError")

(***************************************************************************)
(* Settings and defaults                                                   *)
(***************************************************************************)
\* lines 96-103
default_config ==
    PyDict([enable_trading |-> PyBool(TRUE),
            trade_size_factor |-> float(PyStr(<<"0",".","9","5">>))])

\* lines 106-118
default_state ==
    PyDict([bot_run |-> PyBool(TRUE),
            bot_init |-> PyBool(TRUE),
            current_total_balance |-> float(PyInt(-1)),
            current_quote_balance |-> float(PyInt(-1)),
            starting_balance |-> float(PyInt(-1)),
            trade_pair |-> PyStr(""),
            pair_info |-> EmptyDict,
            open_pos_info |-> PyList(<<>>),
            open_trades |-> PyInt(0),
            exit_order_id |-> None,
            dydx_pos_id |-> PyInt(0)])

(***************************************************************************)
(* json.dumps and json.load                                                *)
(***************************************************************************)
NoFile == [json |-> "no file"]

RECURSIVE json_dumps(_)
json_dumps(v) ==
    CASE v.kind = "None" -> [json |-> "null"]
      [] v.kind = "bool" -> [json |-> IF v.val THEN "true" ELSE "false"]
      [] v.kind = "str" -> [json |-> "string", text |-> v.val]
      [] v.kind = "int" -> [json |-> "number", digits |-> v.val,
                            point |-> FALSE]
      [] v.kind = "float" -> [json |-> "number", digits |-> v.val,
                              point |-> TRUE]
      [] v.kind = "list" ->
            [json |-> "array",
             items |-> [i \in DOMAIN v.val |-> json_dumps(v.val[i])]]
      [] v.kind = "dict" ->
            [json |-> "object",
             members |-> [k \in DOMAIN v.val |-> json_dumps(v.val[k])]]

RECURSIVE json_load(_)
json_load(j) ==
    CASE j.json = "null" -> None
      [] j.json = "true" -> PyBool(TRUE)
      [] j.json = "false" -> PyBool(FALSE)
      [] j.json = "string" -> PyStr(j.text)
      [] j.json = "number" ->
            IF j.point THEN PyFloat(j.digits) ELSE PyInt(j.digits)
      [] j.json = "array" ->
            PyList([i \in DOMAIN j.items |-> json_load(j.items[i])])
      [] j.json = "object" ->
            PyDict([k \in DOMAIN j.members |-> json_load(j.members[k])])

(***************************************************************************)
(* Position sizer                                                          *)
(***************************************************************************)
\* lines 160-162: the stub returns 0.0
get_position_size == PyFloat(float_zero)

\* lines 185-199
get_max_qty(st) ==
    LET v == getitem(st.val["pair_info"], "maxposition_size")
    IN  IF IsRaise(v) THEN v ELSE float(v)

get_min_qty(st) ==
    LET v == getitem(st.val["pair_info"], "minOrderSize")
    IN  IF IsRaise(v) THEN v ELSE float(v)

get_tick(st) ==
    LET v == getitem(st.val["pair_info"], "tick_size")
    IN  IF IsRaise(v) THEN v ELSE float(v)

get_step(st) ==
    LET v == getitem(st.val["pair_info"], "step_size")
    IN  IF IsRaise(v) THEN v ELSE float(v)

\* a / b on floats
true_div(a, b) ==
    IF b.val.m = <<>> THEN Raised("ZeroDivisionError")
    ELSE PyFloat(float_div(a.val, b.val))

\* n * b for an int n and a float b
int_mul(n, b) == PyFloat(int_mul_float(n, b.val))

\* lines 201-205; floor_by receives tick_size and times the quotient
round_to_tick(value, st) ==
    LET floor_by(tick_size) ==
            LET times(quotient) ==
                    IF IsRaise(quotient) THEN quotient
                    ELSE LET num_ticks == math_floor(quotient.val)
                         IN  int_mul(num_ticks, tick_size)
            IN  IF IsRaise(tick_size) THEN tick_size
                ELSE times(true_div(value, tick_size))
    IN  floor_by(get_tick(st))

\* lines 207-211; floor_by receives step_size and times the quotient
round_to_step(value, st) ==
    LET floor_by(step_size) ==
            LET times(quotient) ==
                    IF IsRaise(quotient) THEN quotient
                    ELSE LET num_steps == math_floor(quotient.val)
                         IN  int_mul(num_steps, step_size)
            IN  IF IsRaise(step_size) THEN step_size
                ELSE times(true_div(value, step_size))
    IN  floor_by(get_step(st))

REJECTED == float(PyInt(-1))

\* lines 164-183; each local operator is the rest of the function from the
\* assignment of its first parameter on
get_order_size(cfg, st) ==
    LET total_position_size == get_position_size
        from_max(position_size, max_pos_size) ==
            IF IsRaise(max_pos_size) THEN max_pos_size
            ELSE IF float_cmp(position_size.val, max_pos_size.val) > 0
                 THEN max_pos_size
            ELSE position_size
        from_min(position_size, min_pos_size) ==
            IF IsRaise(min_pos_size) THEN min_pos_size
            ELSE IF float_cmp(position_size.val, min_pos_size.val) < 0
                 THEN REJECTED
            ELSE from_max(position_size, get_max_qty(st))
        from_size(position_size) ==
            IF IsRaise(position_size) THEN position_size
            ELSE from_min(position_size, get_min_qty(st))
        from_target(target) ==
            IF IsRaise(target) THEN target
            ELSE from_size(round_to_step(target, st))
        from_orders(maxOpenOrders) ==
            IF IsRaise(maxOpenOrders) THEN maxOpenOrders
            ELSE from_target(true_div(total_position_size,
                                      float(maxOpenOrders)))
    IN  from_orders(getitem(cfg, "maxOpenOrders"))

\* lines 233-249: the sizes float_to_str knows, by their number of decimal
\* places, as the literals of the if chain
SizeLiterals ==
    << <<"1",".","0">>,
       <<"0",".","1">>,
       <<"0",".","0","1">>,
       <<"0",".","0","0","1">>,
       <<"0",".","0","0","0","1">>,
       <<"0",".","0","0","0","0","1">>,
       <<"0",".","0","0","0","0","0","1">>,
       <<"0",".","0","0","0","0","0","0","1">>,
       <<"0",".","0","0","0","0","0","0","0","1">> >>

SizeTable == [i \in 1..Len(SizeLiterals) |-> float_of_str(SizeLiterals[i])]

\* lines 263-264: while txt_out.__contains__('.') and txt_out[-1] == '0'
RECURSIVE strip_zeros_any(_)
strip_zeros_any(txt_out) ==
    IF Len(txt_out) > 1 /\ txt_out[Len(txt_out)] = "0"
    THEN strip_zeros_any(SubSeq(txt_out, 1, Len(txt_out) - 1))
    ELSE txt_out

RECURSIVE strip_zeros(_)
strip_zeros(txt_out) ==
    IF contains_char(txt_out, ".") /\ txt_out[Len(txt_out)] = "0"
    THEN strip_zeros(SubSeq(txt_out, 1, Len(txt_out) - 1))
    ELSE txt_out

\* lines 213-271: what float_to_str returns and how often it calls log_error
float_to_str(val, st, ptype) ==
    LET known_type == ptype \in {"base_assetPrecision", "quote_assetPrecision"}
        without_point(txt_out) ==
            PyStr(IF txt_out[Len(txt_out)] = "."
                  THEN SubSeq(txt_out, 1, Len(txt_out) - 1)
                  ELSE txt_out)
        \* listed: the branches of the if chain that size equals
        formatted(listed, precision) ==
            [returns |-> without_point(strip_zeros(format_f(val.val,
                                                            precision))),
             errors |-> (IF known_type THEN 0 ELSE 1)
                        + (IF listed = {} THEN 1 ELSE 0)]
        chained(listed) ==
            formatted(listed, IF listed = {} THEN 0
                              ELSE (CHOOSE i \in listed : TRUE) - 1)
        from_size(size) ==
            IF IsRaise(size) THEN [returns |-> size, errors |-> 0]
            ELSE chained({i \in 1..Len(SizeTable) :
                             float_cmp(size.val, SizeTable[i]) = 0})
    IN  from_size(IF ptype = "base_assetPrecision" THEN get_step(st)
                  ELSE IF ptype = "quote_assetPrecision" THEN get_tick(st)
                  ELSE float(PyStr(<<"1",".","0">>)))

(***************************************************************************)
(* Inputs of the parser                                                    *)
(***************************************************************************)
\* lines 631-635: the texts of the unit tests
UnitTests ==
    << <<" ","T","e","s","t"," ">>,
       <<"1",",","2">>,
       <<"1",","," ","2",","," ","3">>,
       <<"1",",","B","U","Y",",","E","X","I","T">>,
       <<"2","0","2","2","-","1","1","-","2","2","T","1","4",":","0","0",
         ":","0","0","Z",","," ","B","U","Y"," ","B","T","C","-","U","S",
         "D"," ","5"," ","o","f"," ","8",","," ","S","E","L","L"," ","@",
         " ","1","8","6","9","8">> >>

Timestamp == <<"2","0","2","2","-","1","1","-","2","2","T","1","4",":","0",
         "0",":","0","0","Z">>

Numerals == { <<"0">>, <<"5">>, <<"8">>, <<"9">>, <<"1","0">> }
NonNumerals == { <<"X">>, <<"-","1">>, <<>> }
Prices == { <<"1">>, <<"1","8","6","9","8">> }
NonPrices == { <<"X">> }

\* the value of a numeral
RECURSIVE int(_)
int(s) ==
    IF s = <<>> THEN 0
    ELSE 10 * int(SubSeq(s, 1, Len(s) - 1)) + (IndexIn(s[Len(s)], Digits) - 1)

BuyClause == <<"B","U","Y"," ","B","T","C","_","U","S","D"," ","5"," ",
               "O","F"," ","8">>
SellClause == <<"S","E","L","L"," ","@"," ","1">>
Sep == <<",", " ">>

\* "<timestamp>, BUY BTC_USD <c> OF <t>, SELL @ <p>"
TradeMessage(c, t, p) ==
    Timestamp \o Sep \o BUY \o <<" ">> \o BTC_USD \o <<" ">> \o c \o <<" ">>
    \o OF \o <<" ">> \o t \o Sep \o SELL \o <<" ">> \o AT \o <<" ">> \o p

\* the same message as a chat user may type it: lower case, padded
TypedMessage(c, t, p) ==
    <<" ">> \o Timestamp \o Sep \o <<"b","u","y"," ">>
    \o <<"b","t","c","_","u","s","d"," ">> \o c \o <<" ","o","f"," ">> \o t
    \o <<" ">> \o Sep \o <<"s","e","l","l"," ","@"," ">> \o p \o <<" ">>

OtherTexts ==
    { <<>>,
      <<" ", " ", " ">>,
      <<"1">> \o Sep \o BuyClause,
      <<"1">> \o Sep \o BuyClause \o Sep \o SellClause \o Sep \o <<"2">>,
      <<"1">> \o Sep \o <<"B","U","Y"," ","E","T","H","_","U","S","D"," ",
                          "5"," ","O","F"," ","8">> \o Sep \o SellClause,
      <<"1">> \o Sep \o BuyClause \o Sep \o <<"E","X","I","T">>,
      <<"1">> \o Sep \o <<"B","U","Y","S">> \o Sep \o SellClause,
      <<"1">> \o Sep \o <<"5"," ","O","F"," ","8">> \o Sep \o SellClause }

Messages ==
    { TradeMessage(c, t, p) :
        c \in Numerals \cup NonNumerals, t \in Numerals \cup NonNumerals,
        p \in Prices \cup NonPrices }
    \cup { TypedMessage(c, t, p) : c \in Numerals, t \in Numerals, p \in Prices }
    \cup { UnitTests[i] : i \in DOMAIN UnitTests }
    \cup OtherTexts

(***************************************************************************)
(* Inputs of the sizer                                                     *)
(***************************************************************************)
MaxOpenOrders == 3

\* the config dict: the defaults, or a config file that sets maxOpenOrders
SizerConfigs ==
    { default_config }
    \cup { setitem(default_config, "maxOpenOrders", PyInt(n)) :
             n \in 0..MaxOpenOrders }

\* market records as state['pair_info'] holds them: the exchange sends every
\* number as a decimal numeral
Markets ==
    { PyDict([minOrderSize |-> PyStr(mn), maxposition_size |-> PyStr(mx),
              step_size |-> PyStr(st), tick_size |-> PyStr(<<"1">>)]) :
        mn \in {<<"0",".","0","0","1">>, <<"0",".","0","1">>, <<"1">>},
        mx \in {<<"0",".","1">>, <<"1","0">>},
        st \in {<<"0",".","0","0","1">>, <<"0",".","0","1">>, <<"0",".","1">>} }

(***************************************************************************)
(* History of a run                                                        *)
(***************************************************************************)
NewHist ==
    [logger |-> FALSE,        \* the logger has been set up
     init_failure |-> "none", \* "quit" or "exception" once initialize failed
     initialized |-> FALSE,   \* initialize ran to its last line
     tests_run |-> 0,         \* calls of parse_trade_message by the main block
     sessions |-> 0,          \* transport sessions started by the main loop
     exit_cause |-> "none",   \* what ended the try block
     state_writes |-> 0,      \* writes of the state file
     prev_saved |-> None]     \* the state the previous run saved at shutdown

ProcessIdle ==
    /\ pc = "idle"
    /\ state_file = NoFile
    /\ config_file = NoFile
    /\ log_file = FALSE
    /\ env = {}
    /\ run = 0
    /\ test_idx = 0
    /\ original_enable_trading = None
    /\ hist = NewHist

(***************************************************************************)
(* The message handler                                                     *)
(***************************************************************************)
\* lines 69-70: the ids are only ever compared, so they are kept as numerals
settings == [chat_id |-> "-1001552279905", bot_id |-> "5861320113"]

NewHandler ==
    [parse_calls |-> 0,    \* calls of parse_trade_message
     process_calls |-> 0,  \* calls of process_order
     log_lines |-> 0,      \* lines the calls have logged
     raised |-> 0]         \* calls that ended in an exception

\* lines 486-515: the lines parse_trade_message logs; line 512 raises before
\* any later log call is reached
parse_log_lines(text) ==
    LET msg == upper(strip(text)) IN
    IF ~contains_char(msg, ",") THEN 2
    ELSE LET msg_parts == split(msg, ",") IN
    IF Len(msg_parts) # 3 THEN 2
    ELSE IF ~startswith(strip(msg_parts[2]), BUY) THEN 2
    ELSE 0

\* line 646
interested_either(event) ==
    \/ event.chat_id = settings.chat_id
    \/ event.sender_id = settings.bot_id

interested(event) ==
    /\ event.chat_id = settings.chat_id
    /\ event.sender_id = settings.bot_id

\* lines 639-650: one call of the handler; process_order (lines 615-621) is
\* a stub that only returns
my_event_handler(event, h) ==
    LET msg_text_ == event.raw_text IN
    IF interested(event)
    THEN LET order == parse_trade_message(msg_text_)
         IN  [parse_calls |-> h.parse_calls + 1,
              process_calls |-> h.process_calls
                  + (IF ~IsRaise(order) /\ order # None THEN 1 ELSE 0),
              log_lines |-> h.log_lines + parse_log_lines(msg_text_),
              raised |-> h.raised + (IF IsRaise(order) THEN 1 ELSE 0)]
    ELSE h

CallsIdle ==
    /\ events = <<>>
    /\ handler = NewHandler
    /\ float_value = None
    /\ precision_type = ""
    /\ str_result = NotCalled
    /\ round_result = NotCalled

(***************************************************************************)
(* The parser applied to one text                                          *)
(***************************************************************************)
InitParse ==
    /\ CallsIdle
    /\ msg_text \in Messages
    /\ parse_result = NotCalled
    /\ size_result = NotCalled
    /\ config = EmptyDict
    /\ state = EmptyDict
    /\ ProcessIdle

ParseCall ==
    /\ UNCHANGED call_vars
    /\ pc = "idle"
    /\ parse_result = NotCalled
    /\ parse_result' = parse_trade_message(msg_text)
    /\ UNCHANGED <<msg_text, size_result, config, state, pc, state_file,
                   config_file, log_file, env, run, test_idx,
                   original_enable_trading, hist>>

NextParse == ParseCall

SpecParse == InitParse /\ [][NextParse]_vars

(***************************************************************************)
(* The sizer applied to one config and one market                          *)
(***************************************************************************)
InitSize ==
    /\ CallsIdle
    /\ msg_text = <<>>
    /\ parse_result = NotCalled
    /\ size_result = NotCalled
    /\ config \in SizerConfigs
    /\ state \in { setitem(default_state, "pair_info", m) : m \in Markets }
    /\ ProcessIdle

SizeCall ==
    /\ UNCHANGED call_vars
    /\ pc = "idle"
    /\ size_result = NotCalled
    /\ size_result' = get_order_size(config, state)
    /\ UNCHANGED <<msg_text, parse_result, config, state, pc, state_file,
                   config_file, log_file, env, run, test_idx,
                   original_enable_trading, hist>>

NextSize == SizeCall

SpecSize == InitSize /\ [][NextSize]_vars

(***************************************************************************)
(* The message handler called with chat events                             *)
(***************************************************************************)
MaxEvents == 2

\* the ids an event may carry: the configured ones and a stranger's
EventIds == {settings.chat_id, settings.bot_id, "777000"}

\* a text that is ignored, one that reaches line 512, and a full message
EventTexts == {UnitTests[2], UnitTests[4], UnitTests[5]}

Events == [chat_id : EventIds, sender_id : EventIds, raw_text : EventTexts]

InitHandler ==
    /\ msg_text = <<>>
    /\ parse_result = NotCalled
    /\ size_result = NotCalled
    /\ config = EmptyDict
    /\ state = EmptyDict
    /\ ProcessIdle
    /\ CallsIdle

HandleEvent ==
    /\ pc = "idle"
    /\ Len(events) < MaxEvents
    /\ \E event \in Events :
          /\ events' = Append(events, event)
          /\ handler' = my_event_handler(event, handler)
    /\ UNCHANGED <<msg_text, parse_result, size_result, config, state>>
    /\ UNCHANGED process_vars
    /\ UNCHANGED <<float_value, precision_type, str_result, round_result>>

NextHandler == HandleEvent

SpecHandler == InitHandler /\ [][NextHandler]_vars

(***************************************************************************)
(* float_to_str applied to one value, one market and one precision type    *)
(***************************************************************************)
\* the numerals of the values that are rendered
FormatValues ==
    { <<"0">>,
      <<"1",".","5">>,
      <<"2",".","0">>,
      <<"1","0">>,
      <<"1","2","0">>,
      <<"0",".","1","2","5">>,
      <<"8",".","2">>,
      <<"9","9",".","9","9","9","6">>,
      <<"1","2","3","4",".","5","6","7","8">>,
      <<"0",".","0","0","0","0","0","0","0","1">>,
      <<"0",".","0","0","0","0","0","0","0","0","5">>,
      <<"-","0",".","0","0","0","4">> }

\* numerals of sizes the if chain of lines 233-249 lists, and of others
ListedSizes ==
    { <<"1">>,
      <<"0",".","1">>,
      <<"0",".","0","1">>,
      <<"0",".","0","0","1">>,
      <<"0",".","0","0","0","1">>,
      <<"0",".","0","0","0","0","1">>,
      <<"0",".","0","0","0","0","0","1">>,
      <<"0",".","0","0","0","0","0","0","1">>,
      <<"0",".","0","0","0","0","0","0","0","1">> }
UnlistedSizes ==
    { <<"0",".","5">>,
      <<"0",".","0","2","5">>,
      <<"2">>,
      <<"0">> }

PrecisionTypes ==
    {"base_assetPrecision", "quote_assetPrecision", "assetPrecision"}

FormatMarkets ==
    { PyDict([step_size |-> PyStr(st), tick_size |-> PyStr(tk)]) :
        st \in ListedSizes \cup UnlistedSizes,
        tk \in {<<"0",".","0","1">>, <<"0",".","5">>} }

InitFormat ==
    /\ msg_text = <<>>
    /\ parse_result = NotCalled
    /\ size_result = NotCalled
    /\ config = EmptyDict
    /\ state \in { setitem(default_state, "pair_info", m) : m \in FormatMarkets }
    /\ ProcessIdle
    /\ events = <<>>
    /\ handler = NewHandler
    /\ float_value \in { float(PyStr(v)) : v \in FormatValues }
    /\ precision_type \in PrecisionTypes
    /\ str_result = NotCalled
    /\ round_result = NotCalled

FormatCall ==
    /\ pc = "idle"
    /\ str_result = NotCalled
    /\ float_value # None
    /\ precision_type # ""
    /\ str_result' = float_to_str(float_value, state, precision_type)
    /\ UNCHANGED <<msg_text, parse_result, size_result, config, state>>
    /\ UNCHANGED process_vars
    /\ UNCHANGED <<events, handler, float_value, precision_type, round_result>>

NextFormat == FormatCall

SpecFormat == InitFormat /\ [][NextFormat]_vars

(***************************************************************************)
(* round_to_step and round_to_tick applied to one value and one market     *)
(***************************************************************************)
\* the numerals of the values that are rounded, all positive
RoundValues ==
    { <<"8",".","2">>,
      <<"8",".","1">>,
      <<"8">>,
      <<"1",".","7">>,
      <<"0",".","3">>,
      <<"0",".","7">>,
      <<"0",".","5","9">>,
      <<"0",".","5","8">>,
      <<"3",".","4">>,
      <<"5">>,
      <<"1","2",".","3","4","5">>,
      <<"1","0","0">>,
      <<"0",".","0","0","1">>,
      <<"0",".","2","5">>,
      <<"2",".","5">> }

\* positive step and tick sizes
RoundMarkets ==
    { PyDict([step_size |-> PyStr(st), tick_size |-> PyStr(tk)]) :
        st \in {<<"1">>, <<"0",".","1">>, <<"0",".","0","1">>,
                <<"0",".","0","0","1">>, <<"0",".","5">>, <<"0",".","2","5">>},
        tk \in {<<"1">>, <<"0",".","1">>, <<"0",".","5">>} }

InitRound ==
    /\ msg_text = <<>>
    /\ parse_result = NotCalled
    /\ size_result = NotCalled
    /\ config = EmptyDict
    /\ state \in { setitem(default_state, "pair_info", m) : m \in RoundMarkets }
    /\ ProcessIdle
    /\ events = <<>>
    /\ handler = NewHandler
    /\ float_value \in { float(PyStr(v)) : v \in RoundValues }
    /\ precision_type = ""
    /\ str_result = NotCalled
    /\ round_result = NotCalled

\* round_to_step(value, pair), and round_to_step of what it returned
RoundToStep ==
    /\ pc = "idle"
    /\ round_result = NotCalled
    /\ float_value # None
    /\ precision_type = ""
    /\ LET again(once) ==
               [size |-> get_step(state),
                once |-> once,
                twice |-> IF IsRaise(once) THEN once
                          ELSE round_to_step(once, state)]
       IN  round_result' = again(round_to_step(float_value, state))
    /\ UNCHANGED <<msg_text, parse_result, size_result, config, state>>
    /\ UNCHANGED process_vars
    /\ UNCHANGED <<events, handler, float_value, precision_type, str_result>>

\* round_to_tick(value, pair), and round_to_tick of what it returned
RoundToTick ==
    /\ pc = "idle"
    /\ round_result = NotCalled
    /\ float_value # None
    /\ precision_type = ""
    /\ LET again(once) ==
               [size |-> get_tick(state),
                once |-> once,
                twice |-> IF IsRaise(once) THEN once
                          ELSE round_to_tick(once, state)]
       IN  round_result' = again(round_to_tick(float_value, state))
    /\ UNCHANGED <<msg_text, parse_result, size_result, config, state>>
    /\ UNCHANGED process_vars
    /\ UNCHANGED <<events, handler, float_value, precision_type, str_result>>

NextRound ==
    \/ RoundToStep
    \/ RoundToTick

SpecRound == InitRound /\ [][NextRound]_vars

(***************************************************************************)
(* The process: initialize, the main block, shutdown, restart              *)
(***************************************************************************)
MaxRuns == 2

\* lines 375-405 and 453-461: the environment variables initialize reads
DydxEnv == {"DYDX_API_KEY", "DYDX_API_SECRET", "DYDX_API_PASS",
            "DYDX_STARK_KEY", "DYDX_ETH_ADDR"}
TelegramEnv == {"TELEGRAM_APP_ID", "TELEGRAM_APP_HASH"}

\* every variable set, or exactly one of them missing
EnvChoices ==
    { DydxEnv \cup TelegramEnv }
    \cup { (DydxEnv \cup TelegramEnv) \ {v} : v \in DydxEnv \cup TelegramEnv }

\* lines 423-424: base_asset + '-' + quote_asset
pair == PyStr("BTC-USD")

\* what the exchange answers
ExchangeMarket ==
    PyDict([minOrderSize |-> PyStr(<<"0",".","0","0","1">>),
            maxposition_size |-> PyStr(<<"1","0">>),
            step_size |-> PyStr(<<"0",".","0","0","1">>),
            tick_size |-> PyStr(<<"1">>)])
ExchangePositionId == PyStr("position-7")
Equities == { PyStr(<<"1","0","0">>), PyStr(<<"2","5","0",".","5">>) }

\* state files a previous run may have left behind
SavedOpen ==
    PyDict([bot_run |-> PyBool(TRUE),
            bot_init |-> PyBool(TRUE),
            current_total_balance |-> float(PyStr(<<"9","5",".","5">>)),
            current_quote_balance |-> float(PyInt(-1)),
            starting_balance |-> float(PyInt(90)),
            trade_pair |-> pair,
            pair_info |-> ExchangeMarket,
            open_pos_info |-> PyList(<<>>),
            open_trades |-> PyInt(1),
            exit_order_id |-> PyStr("order-1"),
            dydx_pos_id |-> ExchangePositionId])
SavedFlat == setitem(SavedOpen, "exit_order_id", None)

StateFiles == { NoFile, json_dumps(SavedOpen), json_dumps(SavedFlat) }

ConfigFiles ==
    { NoFile, json_dumps(default_config),
      json_dumps(setitem(setitem(default_config, "enable_trading",
                                 PyBool(FALSE)), "maxOpenOrders", PyInt(2))),
      json_dumps(PyDict([maxOpenOrders |-> PyInt(2)])) }

Init ==
    /\ CallsIdle
    /\ msg_text = <<>>
    /\ parse_result = NotCalled
    /\ size_result = NotCalled
    /\ config = EmptyDict
    /\ state = EmptyDict
    /\ pc = "start"
    /\ state_file \in StateFiles
    /\ config_file \in ConfigFiles
    /\ log_file \in BOOLEAN
    /\ env \in EnvChoices
    /\ run = 1
    /\ test_idx = 1
    /\ original_enable_trading = None
    /\ hist = NewHist

\* quit(): SystemExit is not an Exception, so neither the handler of
\* initialize nor the KeyboardInterrupt handler of the main block catches it
Quit ==
    /\ pc' = "finally"
    /\ hist' = [hist EXCEPT !.init_failure = "quit",
                            !.exit_cause = "SystemExit"]

\* an Exception raised inside the try block of initialize
RaiseInInitialize ==
    /\ pc' = "init_except"
    /\ hist' = [hist EXCEPT !.init_failure = "exception"]

\* lines 305-309
InitState ==
    /\ UNCHANGED call_vars
    /\ pc = "start"
    /\ state' = setitem(setitem(default_state, "bot_run", PyBool(TRUE)),
                        "bot_init", PyBool(TRUE))
    /\ pc' = "setup_logging"
    /\ UNCHANGED <<msg_text, parse_result, size_result, config, state_file,
                   config_file, log_file, env, run, test_idx,
                   original_enable_trading, hist>>

\* lines 311-343
SetupLogging ==
    /\ UNCHANGED call_vars
    /\ pc = "setup_logging"
    /\ \E removed \in BOOLEAN :
          IF log_file /\ ~removed
          THEN /\ Quit
               /\ UNCHANGED log_file
          ELSE /\ log_file' = TRUE
               /\ pc' = "load_config"
               /\ hist' = [hist EXCEPT !.logger = TRUE]
    /\ UNCHANGED <<msg_text, parse_result, size_result, config, state,
                   state_file, config_file, env, run, test_idx,
                   original_enable_trading>>

\* lines 345-361
LoadConfig ==
    /\ UNCHANGED call_vars
    /\ pc = "load_config"
    /\ LET loaded == IF config_file # NoFile THEN json_load(config_file)
                     ELSE default_config
           enable_trading == getitem(loaded, "enable_trading") IN
       /\ config_file' = IF config_file # NoFile THEN config_file
                         ELSE json_dumps(default_config)
       /\ IF IsRaise(enable_trading)
          THEN /\ config' = loaded
               /\ RaiseInInitialize
               /\ UNCHANGED original_enable_trading
          ELSE /\ original_enable_trading' = enable_trading
               /\ config' = setitem(loaded, "enable_trading", PyBool(FALSE))
               /\ pc' = "credentials"
               /\ UNCHANGED hist
    /\ UNCHANGED <<msg_text, parse_result, size_result, state, state_file,
                   log_file, env, run, test_idx>>

\* lines 363-405
ReadCredentials ==
    /\ UNCHANGED call_vars
    /\ pc = "credentials"
    /\ IF DydxEnv \subseteq env
       THEN /\ pc' = "account"
            /\ UNCHANGED hist
       ELSE Quit
    /\ UNCHANGED <<msg_text, parse_result, size_result, config, state,
                   state_file, config_file, log_file, env, run, test_idx,
                   original_enable_trading>>

\* lines 407-420
GetAccount ==
    /\ UNCHANGED call_vars
    /\ pc = "account"
    /\ \E answered \in BOOLEAN :
          IF answered
          THEN /\ state' = setitem(state, "dydx_pos_id", ExchangePositionId)
               /\ pc' = "market"
               /\ UNCHANGED hist
          ELSE /\ RaiseInInitialize
               /\ UNCHANGED state
    /\ UNCHANGED <<msg_text, parse_result, size_result, config, state_file,
                   config_file, log_file, env, run, test_idx,
                   original_enable_trading>>

\* lines 422-430
GetMarket ==
    /\ UNCHANGED call_vars
    /\ pc = "market"
    /\ \E answered \in BOOLEAN :
          IF answered
          THEN /\ state' = setitem(setitem(state, "trade_pair", pair),
                                   "pair_info", ExchangeMarket)
               /\ pc' = "load_state"
               /\ UNCHANGED hist
          ELSE /\ state' = setitem(state, "trade_pair", pair)
               /\ RaiseInInitialize
    /\ UNCHANGED <<msg_text, parse_result, size_result, config, state_file,
                   config_file, log_file, env, run, test_idx,
                   original_enable_trading>>

\* line 442: not init_state['exit_order_id'] == None
should_recover(init_state) == init_state.val["exit_order_id"] # None

\* lines 152-158 applied to the state, for an account with this equity
update_current_balance(st, equity) ==
    setitem(st, "current_total_balance", float(equity))

\* lines 446-450, when the exchange answers with this equity
default_start(st, equity) ==
    LET balanced == update_current_balance(setitem(st, "trade_pair", pair),
                                           equity)
    IN  setitem(balanced, "starting_balance",
                balanced.val["current_total_balance"])

\* lines 432-450
LoadState ==
    /\ UNCHANGED call_vars
    /\ pc = "load_state"
    /\ \E removed \in BOOLEAN, answered \in BOOLEAN, equity \in Equities :
          LET init_state ==
                  IF state_file # NoFile THEN json_load(state_file)
                  ELSE PyDict([exit_order_id |-> None])
              after_remove ==
                  IF state_file # NoFile /\ removed THEN NoFile
                  ELSE state_file
          IN  /\ state_file' = after_remove
              /\ IF should_recover(init_state)
                 THEN IF after_remove = NoFile
                      THEN \* open() of the removed file: FileNotFoundError
                           /\ RaiseInInitialize
                           /\ UNCHANGED state
                      ELSE /\ state' = json_load(after_remove)
                           /\ pc' = "telegram"
                           /\ UNCHANGED hist
                 ELSE IF answered
                      THEN /\ state' = default_start(state, equity)
                           /\ pc' = "telegram"
                           /\ UNCHANGED hist
                      ELSE /\ state' = setitem(state, "trade_pair", pair)
                           /\ RaiseInInitialize
    /\ UNCHANGED <<msg_text, parse_result, size_result, config, config_file,
                   log_file, env, run, test_idx, original_enable_trading>>

\* lines 452-470
SetupTelegram ==
    /\ UNCHANGED call_vars
    /\ pc = "telegram"
    /\ IF TelegramEnv \subseteq env
       THEN /\ config' = setitem(config, "enable_trading",
                                 original_enable_trading)
            /\ pc' = "tests"
            /\ hist' = [hist EXCEPT !.initialized = TRUE]
       ELSE /\ Quit
            /\ UNCHANGED config
    /\ UNCHANGED <<msg_text, parse_result, size_result, state, state_file,
                   config_file, log_file, env, run, test_idx,
                   original_enable_trading>>

\* line 475: state['bot_run'] == False is a comparison whose value is
\* dropped, the state is left as it was
except_bot_run(st) == st

\* lines 472-475: the handler logs and initialize returns normally
InitializeExcept ==
    /\ UNCHANGED call_vars
    /\ pc = "init_except"
    /\ state' = except_bot_run(state)
    /\ pc' = "tests"
    /\ UNCHANGED <<msg_text, parse_result, size_result, config, state_file,
                   config_file, log_file, env, run, test_idx,
                   original_enable_trading, hist>>

\* lines 629-636, and 638-653 after the last test: a test that raises leaves
\* the try block (AttributeError is not a KeyboardInterrupt); after the last
\* test bot_run is cleared, the handler is registered and the loop condition
\* is evaluated
RunUnitTest ==
    /\ UNCHANGED call_vars
    /\ pc = "tests"
    /\ LET result == parse_trade_message(UnitTests[test_idx]) IN
       /\ msg_text' = UnitTests[test_idx]
       /\ parse_result' = result
       /\ IF IsRaise(result)
          THEN /\ pc' = "finally"
               /\ hist' = [hist EXCEPT !.tests_run = @ + 1,
                                       !.exit_cause = result.exc]
               /\ UNCHANGED <<state, test_idx>>
          ELSE IF test_idx < Len(UnitTests)
          THEN /\ test_idx' = test_idx + 1
               /\ hist' = [hist EXCEPT !.tests_run = @ + 1]
               /\ UNCHANGED <<state, pc>>
          ELSE /\ state' = setitem(state, "bot_run", PyBool(FALSE))
               /\ pc' = IF state'.val["bot_run"].val THEN "loop"
                        ELSE "finally"
               /\ hist' = [hist EXCEPT !.tests_run = @ + 1,
                                       !.exit_cause = "loop ended"]
               /\ UNCHANGED test_idx
    /\ UNCHANGED <<size_result, config, state_file, config_file, log_file,
                   env, run, original_enable_trading>>

\* lines 652-656: one pass of the main loop. No behaviour of the process
\* reaches pc = "loop", so this step is not among the steps of Next.
TransportSession ==
    /\ UNCHANGED call_vars
    /\ pc = "loop"
    /\ hist' = [hist EXCEPT !.sessions = @ + 1]
    /\ pc' = IF state.val["bot_run"].val THEN "loop" ELSE "finally"
    /\ UNCHANGED <<msg_text, parse_result, size_result, config, state,
                   state_file, config_file, log_file, env, run, test_idx,
                   original_enable_trading>>

TryBlock == {"start", "setup_logging", "load_config", "credentials",
             "account", "market", "load_state", "telegram", "init_except",
             "tests"}

\* lines 658-661: CTRL+C anywhere in the try block. Before the logger exists
\* log_debug raises inside the handler and line 661 is not reached.
Interrupt ==
    /\ UNCHANGED call_vars
    /\ pc \in TryBlock
    /\ state' = IF hist.logger THEN setitem(state, "bot_run", PyBool(FALSE))
                ELSE state
    /\ pc' = "finally"
    /\ hist' = [hist EXCEPT !.exit_cause = "KeyboardInterrupt"]
    /\ UNCHANGED <<msg_text, parse_result, size_result, config, state_file,
                   config_file, log_file, env, run, test_idx,
                   original_enable_trading>>

\* mutants of line 665: save only while running / save always
in_position_while_running(st) ==
    st.val["exit_order_id"] # None /\ st.val["bot_run"].val
in_position_always(st) == TRUE

\* line 665: not state['exit_order_id'] == None
in_position(st) == st.val["exit_order_id"] # None

\* lines 662-668: the finally block; with the empty state of a process
\* interrupted before line 307 the lookup raises KeyError
Shutdown ==
    /\ UNCHANGED call_vars
    /\ pc = "finally"
    /\ IF "exit_order_id" \in DOMAIN state.val /\ in_position(state)
       THEN /\ state_file' = json_dumps(state)
            /\ hist' = [hist EXCEPT !.state_writes = @ + 1]
       ELSE UNCHANGED <<state_file, hist>>
    /\ pc' = "exited"
    /\ UNCHANGED <<msg_text, parse_result, size_result, config, state,
                   config_file, log_file, env, run, test_idx,
                   original_enable_trading>>

\* lines 37-43: the next process starts with fresh globals on the same disk
Restart ==
    /\ UNCHANGED call_vars
    /\ pc = "exited"
    /\ run < MaxRuns
    /\ run' = run + 1
    /\ pc' = "start"
    /\ msg_text' = <<>>
    /\ parse_result' = NotCalled
    /\ config' = EmptyDict
    /\ state' = EmptyDict
    /\ env' \in EnvChoices
    /\ test_idx' = 1
    /\ original_enable_trading' = None
    /\ hist' = [NewHist EXCEPT !.prev_saved =
                   IF hist.state_writes > 0 THEN state ELSE None]
    /\ UNCHANGED <<size_result, state_file, config_file, log_file>>

Next ==
    \/ InitState
    \/ SetupLogging
    \/ LoadConfig
    \/ ReadCredentials
    \/ GetAccount
    \/ GetMarket
    \/ LoadState
    \/ SetupTelegram
    \/ InitializeExcept
    \/ RunUnitTest
    \/ Interrupt
    \/ Shutdown
    \/ Restart

Spec == Init /\ [][Next]_vars

(***************************************************************************)
(* Properties                                                              *)
(***************************************************************************)
\* the texts that match the grammar with 0 <= count <= total and a price > 0
WellFormedMessages ==
    { TradeMessage(c, t, p) : c \in Numerals, t \in Numerals, p \in Prices }
    \cup { TypedMessage(c, t, p) :
             c \in Numerals, t \in Numerals, p \in Prices }

ParseReturned == parse_result # NotCalled

\* the state holds an exit order id that is not None
OpenPosition ==
    /\ "exit_order_id" \in DOMAIN state.val
    /\ state.val["exit_order_id"] # None

\* C1: parse_trade_message never raises: every text gives an order or None,
\* and a text outside the grammar, such as "1,BUY,EXIT", gives None.
C1_NeverRaises ==
    ParseReturned =>
        /\ parse_result.kind \in {"None", "order"}
        /\ msg_text \notin WellFormedMessages => parse_result = None
        /\ msg_text = UnitTests[4] => parse_result = None

\* C2: a well-formed message with 0 <= c <= t and a positive price p is
\* parsed into the order {BTC_USD, int c, int t, number p}.
C2_WellFormedParsed ==
    \A c \in Numerals, t \in Numerals, p \in Prices :
        (ParseReturned /\ int(c) <= int(t)
         /\ msg_text = TradeMessage(c, t, p)) =>
            parse_result = [kind |-> "order",
                            pair |-> PyStr(BTC_USD),
                            buy_count |-> PyInt(int(c)),
                            buy_total |-> PyInt(int(t)),
                            sell_price |-> PyInt(int(p))]

\* C3: when the previous run saved its state at shutdown, initialize of the
\* next run ends with the state equal to the saved record and with the
\* state file gone.
C3_RoundTrip ==
    (pc = "tests" /\ hist.prev_saved # None) =>
        /\ state = hist.prev_saved
        /\ state_file = NoFile

\* C4: whatever ended the process (interrupt, quit() in initialize, uncaught
\* exception), an exited process that holds an exit order id has written
\* its current state to the state file.
C4_FlushedOnExit ==
    (pc = "exited" /\ OpenPosition) =>
        /\ hist.state_writes > 0
        /\ state_file = json_dumps(state)

C4_Witness ==
    /\ pc = "exited"
    /\ OpenPosition
    /\ hist.exit_cause = "KeyboardInterrupt"
    /\ ~state.val["bot_run"].val
    /\ state_file = json_dumps(state)

\* C5: after a failure of initialize (missing credential, failing exchange
\* call, file trouble) no further step of the bot is executed: no message is
\* parsed and no transport session is started.
C5_InitFailureIsFatal ==
    hist.init_failure # "none" => (hist.tests_run = 0 /\ hist.sessions = 0)

\* C6: count and total are compared as integers: an otherwise valid message
\* is accepted when count <= total and rejected with None when count > total.
C6_IntegerComparison ==
    \A c \in Numerals, t \in Numerals, p \in Prices :
        (ParseReturned /\ msg_text = TradeMessage(c, t, p)) =>
            /\ int(c) <= int(t) => parse_result.kind = "order"
            /\ int(c) > int(t) => parse_result = None

\* C7: a message whose count token or total token is not a non-negative
\* integer is rejected with None, also when only one of the two is not.
C7_NonNumericRejected ==
    \A c \in Numerals \cup NonNumerals, t \in Numerals \cup NonNumerals,
       p \in Prices \cup NonPrices :
        (ParseReturned /\ (c \in NonNumerals \/ t \in NonNumerals)
         /\ msg_text = TradeMessage(c, t, p)) =>
            parse_result = None

\* C8: get_order_size returns -1.0 when the per-order target (exposure over
\* the open-order count, rounded down to the step size) is below
\* minOrderSize, maxPositionSize when the target is above it, and the target
\* otherwise.
C8_OrderSize ==
    size_result # NotCalled =>
        /\ size_result.kind = "float"
        /\ LET info == state.val["pair_info"]
               orders == IF "maxOpenOrders" \in DOMAIN config.val
                         THEN config.val["maxOpenOrders"].val ELSE 0
               \* no exposure: the target is 0.0, a multiple of every step
               target == float_zero
               least == float(info.val["minOrderSize"]).val
               most == float(info.val["maxposition_size"]).val
           IN  orders > 0 =>
                  size_result.val =
                     IF float_cmp(target, least) < 0
                     THEN float_of_int(-1)
                     ELSE IF float_cmp(target, most) > 0 THEN most
                     ELSE target

\* C9: the state file is written only by the shutdown step and only when the
\* exit order id is not None; a shutdown with a None exit order id leaves
\* the disk as it is.
C9_FlatNeverPersisted ==
    [][ /\ (state_file' # state_file /\ state_file' # NoFile) =>
               (pc = "finally" /\ OpenPosition)
        /\ hist'.state_writes > hist.state_writes =>
               (pc = "finally" /\ OpenPosition)
        /\ (pc = "finally" /\ ~OpenPosition) => state_file' = state_file
      ]_vars

C9_Witness ==
    /\ pc = "exited"
    /\ hist.initialized
    /\ "exit_order_id" \in DOMAIN state.val
    /\ state.val["exit_order_id"] = None
    /\ hist.state_writes = 0
    /\ state_file = NoFile

\* C10: an initialized bot keeps starting transport sessions until it is
\* interrupted: nothing but a KeyboardInterrupt ends its process.
C10_ReconnectsUntilInterrupted ==
    (pc = "exited" /\ hist.initialized) =>
        hist.exit_cause = "KeyboardInterrupt"

\* the events so far that carry both the configured chat id and the
\* configured bot id
FromConfiguredBot ==
    { i \in 1..Len(events) :
        /\ events[i].chat_id = settings.chat_id
        /\ events[i].sender_id = settings.bot_id }

\* C11: the handler calls parse_trade_message and process_order only for
\* events whose chat id is the configured chat_id and whose sender id is the
\* configured bot_id; as long as no such event has arrived nothing is
\* parsed, nothing is processed and nothing is logged.
C11_OnlyConfiguredSender ==
    /\ handler.parse_calls <= Cardinality(FromConfiguredBot)
    /\ handler.process_calls <= Cardinality(FromConfiguredBot)
    /\ FromConfiguredBot = {} =>
          /\ handler.parse_calls = 0
          /\ handler.process_calls = 0
          /\ handler.log_lines = 0
          /\ handler.raised = 0

\* an event of the configured bot was parsed and logged about, and an event
\* of a stranger in the configured chat went by
C11_Witness ==
    /\ Cardinality(FromConfiguredBot) = 1
    /\ \E i \in 1..Len(events) :
          /\ events[i].chat_id = settings.chat_id
          /\ events[i].sender_id # settings.bot_id
    /\ handler.parse_calls = 1
    /\ handler.log_lines > 0

\* the digits of a numeral and the number of them behind its point
numeral_digits(s) == SelectSeq(s, IsDigit)
numeral_places(s) ==
    LET dots == {i \in 1..Len(s) : s[i] = "."}
    IN  IF dots = {} THEN 0 ELSE Len(s) - (CHOOSE i \in dots : TRUE)

\* the numeral txt is the float v rounded to p decimal places: it has at
\* most p places and | txt - v | <= 10^-p / 2, in exact arithmetic
RoundedTo(txt, v, p) ==
    LET k == numeral_places(txt)
        up == IF v.e < 0 THEN -v.e ELSE 0
        a == big_shl(big_mul_pow10(big_of_digits(numeral_digits(txt)), p - k),
                     up)
        b == big_shl(big_mul_pow10(v.m, p), v.e + up)
        diff == IF big_cmp(a, b) >= 0 THEN big_sub(a, b) ELSE big_sub(b, a)
    IN  /\ k <= p
        /\ big_cmp(big_mul(diff, 2), big_shl(<<1>>, up)) <= 0

\* the size numeral float_to_str is asked to go by, "" for an unknown type
RequestedSize ==
    IF precision_type = "base_assetPrecision"
    THEN state.val["pair_info"].val["step_size"].val
    ELSE IF precision_type = "quote_assetPrecision"
    THEN state.val["pair_info"].val["tick_size"].val
    ELSE <<>>

\* C12: float_to_str renders the value with the decimal places the size
\* table gives (1 -> 0, 0.1 -> 1, ..., 0.00000001 -> 8), without trailing
\* fractional zeros or a dangling point and with every digit of the integer
\* part (size 0.001: 1.5 -> "1.5", 2.0 -> "2"); for a size that is not in
\* the table it logs an error and renders with 0 decimal places instead of
\* failing.
C12_Rendering ==
    str_result # NotCalled =>
        LET places == IF RequestedSize \in ListedSizes
                      THEN numeral_places(RequestedSize) ELSE 0
            txt == str_result.returns.val
        IN  /\ str_result.returns.kind = "str"
            /\ txt # <<>>
            /\ IsDigit(txt[Len(txt)])
            /\ contains_char(txt, ".") => txt[Len(txt)] # "0"
            /\ txt[1] = "-" => float_value.val.neg
            /\ RoundedTo(txt, float_value.val, places)
            /\ RequestedSize \notin ListedSizes => str_result.errors > 0
            /\ RequestedSize = <<"0",".","0","0","1">> =>
                  /\ float_value = float(PyStr(<<"1",".","5">>)) =>
                        txt = <<"1",".","5">>
                  /\ float_value = float(PyStr(<<"2",".","0">>)) =>
                        txt = <<"2">>

\* 120.0 was rendered for a size of 0.01: "120.00" lost its fractional zeros
\* and its point, and kept the zero of the integer part
C12_Witness ==
    /\ str_result # NotCalled
    /\ RequestedSize = <<"0",".","0","1">>
    /\ float_value = float(PyStr(<<"1","2","0">>))
    /\ str_result.returns = PyStr(<<"1","2","0">>)
    /\ str_result.errors = 0

\* x < r + s for floats x, r, s >= 0, in exact arithmetic
LessThanSum(x, r, s) ==
    LET low == CHOOSE e \in {x.e, r.e, s.e} : \A f \in {x.e, r.e, s.e} : e <= f
    IN  big_cmp(big_shl(x.m, x.e - low),
                big_add(big_shl(r.m, r.e - low), big_shl(s.m, s.e - low))) < 0

\* C13: round_to_step and round_to_tick return the greatest multiple of the
\* step (tick) size that does not exceed the value: the result is never
\* above the value, less than one step below it, and rounding the result
\* again returns it unchanged.
C13_FloorIdempotent ==
    round_result # NotCalled =>
        /\ round_result.once.kind = "float"
        /\ float_cmp(round_result.once.val, float_value.val) <= 0
        /\ LessThanSum(float_value.val, round_result.once.val,
                       round_result.size.val)
        /\ round_result.twice = round_result.once

====
